---- MODULE Spec2Model ----
(***************************************************************************)
(* A model of the kick synthesizer voice of src/src/lib.rs: the AHDSR      *)
(* envelope state machine (AhdsrState), the phase accumulator              *)
(* (OscillatorState) and the per-sample event/render loop of               *)
(* KickSynth::process.                                                     *)
(*                                                                         *)
(* f32 values are modelled as exact rationals <<n, d>> (d > 0, lowest      *)
(* terms).  Levels are drawn from squares of rationals, so that            *)
(* powf(0.5) is exact on every value the envelope can hold.                *)
(***************************************************************************)
EXTENDS Integers, Sequences, FiniteSets, TLC

\* ------------------------------------------------------------------------
\* Bounds of the model
\* ------------------------------------------------------------------------

\* number of trigger() calls explored on the single envelope
MaxTriggers == 3

\* events handed to process() over a run of the voice
MaxEvents == 3

\* samples the voice renders over a run
MaxSamples == 3

\* the half second of the amplitude scenario, in samples (24000 at 48 kHz)
E2EHalf == 60

\* ------------------------------------------------------------------------
\* f32 arithmetic, as exact rational arithmetic
\* ------------------------------------------------------------------------

Abs(x) == IF x < 0 THEN -x ELSE x

Sgn(x) == IF x < 0 THEN -1 ELSE IF x > 0 THEN 1 ELSE 0

RECURSIVE Gcd(_, _)
Gcd(a, b) == IF b = 0 THEN a ELSE Gcd(b, a % b)

\* the values that are no numbers: x/0 and 0/0
NaN == <<0, 0>>
Inf == <<1, 0>>

IsNaN(a) == a = NaN

IsFinite(a) == a[2] # 0

\* the rational n/d in lowest terms with a positive denominator; n/0 is an
\* infinity, 0/0 is NaN
Rat(n, d) ==
  IF d = 0 THEN <<Sgn(n), 0>>
  ELSE LET s == IF d < 0 THEN -1 ELSE 1
           g == Gcd(Abs(n), Abs(d))
       IN  <<(s * n) \div g, (s * d) \div g>>

Zero == <<0, 1>>
One == <<1, 1>>

RAdd(a, b) ==
  IF IsNaN(a) \/ IsNaN(b) THEN NaN
  ELSE IF ~IsFinite(a) /\ ~IsFinite(b) THEN (IF a = b THEN a ELSE NaN)
  ELSE IF ~IsFinite(a) THEN a
  ELSE IF ~IsFinite(b) THEN b
  ELSE LET g == Gcd(a[2], b[2])
       IN  Rat(a[1] * (b[2] \div g) + b[1] * (a[2] \div g), (a[2] \div g) * b[2])

RNeg(a) == <<-a[1], a[2]>>

RSub(a, b) == RAdd(a, RNeg(b))

RMul(a, b) ==
  IF IsNaN(a) \/ IsNaN(b) THEN NaN
  ELSE IF ~IsFinite(a) \/ ~IsFinite(b) THEN <<Sgn(a[1]) * Sgn(b[1]), 0>>
  ELSE LET g1 == Gcd(Abs(a[1]), b[2])
           g2 == Gcd(Abs(b[1]), a[2])
       IN  <<(a[1] \div g1) * (b[1] \div g2), (a[2] \div g2) * (b[2] \div g1)>>

\* f32::recip of a value: 1/0 is an infinity
RInv(a) == Rat(a[2], a[1])

\* a / b: x/0 is an infinity, 0/0 is NaN
RDiv(a, b) == RMul(a, RInv(b))

\* a < b; every comparison with NaN is false
RLt(a, b) ==
  IF IsNaN(a) \/ IsNaN(b) THEN FALSE
  ELSE IF ~IsFinite(a) \/ ~IsFinite(b)
    THEN (IF ~IsFinite(a) THEN a[1] ELSE 0) < (IF ~IsFinite(b) THEN b[1] ELSE 0)
  ELSE LET g == Gcd(a[2], b[2])
       IN  a[1] * (b[2] \div g) < b[1] * (a[2] \div g)

RGt(a, b) == RLt(b, a)

RGeq(a, b) == RLt(b, a) \/ (a = b /\ ~IsNaN(a))

RLeq(a, b) == RGeq(b, a)

RECURSIVE ISqrtIn(_, _, _)
ISqrtIn(n, lo, hi) ==
  IF lo >= hi THEN lo
  ELSE LET mid == (lo + hi + 1) \div 2
       IN  IF mid * mid <= n THEN ISqrtIn(n, mid, hi) ELSE ISqrtIn(n, lo, mid - 1)

\* the integer square root, rounded down
ISqrt(n) == ISqrtIn(n, 0, IF n < 46340 THEN n ELSE 46340)

\* f32::powf(0.5): exact on the squares of rationals (TypeOK states that the
\* envelope holds no other value), NaN below zero
Sqrt(a) ==
  IF a[1] < 0 THEN NaN ELSE <<ISqrt(a[1]), ISqrt(a[2])>>

\* f32::powf(2.0)
Sq(a) == <<a[1] * a[1], a[2] * a[2]>>

\* f32::recip of a sample rate held as an integer
Recip(rate) == Rat(1, rate)

\* u64 as f32
AsF32(n) == <<n, 1>>

\* lerp without the subtraction: a + b * t
LerpNoSub(t, a, b) == RAdd(a, RMul(b, t))

\* fn lerp(t, a, b) = a + (b - a) * t
Lerp(t, a, b) == RAdd(a, RMul(RSub(b, a), t))

\* ------------------------------------------------------------------------
\* AhdsrStage (src/src/lib.rs 345-378)
\* ------------------------------------------------------------------------

AhdsrStage == {"NotTriggered", "Attack", "Hold", "Decay", "Sustain", "Release"}

TimedStages == {"Attack", "Hold", "Decay", "Release"}

\* the cycle that starts over after Release instead of going idle
NextStageRestarts(stage) ==
  CASE stage = "NotTriggered" -> "Attack"
    [] stage = "Attack" -> "Hold"
    [] stage = "Hold" -> "Decay"
    [] stage = "Decay" -> "Sustain"
    [] stage = "Sustain" -> "Release"
    [] stage = "Release" -> "Attack"

\* AhdsrStage::next
NextStage(stage) ==
  CASE stage = "NotTriggered" -> "Attack"
    [] stage = "Attack" -> "Hold"
    [] stage = "Hold" -> "Decay"
    [] stage = "Decay" -> "Sustain"
    [] stage = "Sustain" -> "Release"
    [] stage = "Release" -> "NotTriggered"

\* endpoint_values with Decay starting from the sustain level
EndpointValuesFlatDecay(stage, current, sustain) ==
  CASE stage = "NotTriggered" -> <<Zero, Zero>>
    [] stage = "Attack" -> <<current, One>>
    [] stage = "Hold" -> <<One, One>>
    [] stage = "Decay" -> <<sustain, sustain>>
    [] stage = "Sustain" -> <<sustain, sustain>>
    [] stage = "Release" -> <<current, Zero>>

\* endpoint_values with Release starting from full level, not from the captured value
EndpointValuesReleaseFromOne(stage, current, sustain) ==
  CASE stage = "NotTriggered" -> <<Zero, Zero>>
    [] stage = "Attack" -> <<current, One>>
    [] stage = "Hold" -> <<One, One>>
    [] stage = "Decay" -> <<One, sustain>>
    [] stage = "Sustain" -> <<sustain, sustain>>
    [] stage = "Release" -> <<One, Zero>>

\* AhdsrStage::endpoint_values: <<start, end>>
EndpointValues(stage, current, sustain) ==
  CASE stage = "NotTriggered" -> <<Zero, Zero>>
    [] stage = "Attack" -> <<current, One>>
    [] stage = "Hold" -> <<One, One>>
    [] stage = "Decay" -> <<One, sustain>>
    [] stage = "Sustain" -> <<sustain, sustain>>
    [] stage = "Release" -> <<current, Zero>>

\* ------------------------------------------------------------------------
\* AhdsrState (src/src/lib.rs 380-457)
\* ------------------------------------------------------------------------

\* #[derive(Default)] AhdsrState, with the sample rate KickSynth::initialize writes
AhdsrStateDefault(rate) ==
  [sample_rate |-> rate,
   current_stage |-> "NotTriggered",
   samples_since_stage_start |-> 0,
   last_value_at_transition |-> Zero,
   current |-> Zero,
   attack |-> Zero, hold |-> Zero, decay |-> Zero, sustain |-> Zero, release |-> Zero]

\* AhdsrState::apply_params: p holds the five smoothed values of this sample
ApplyParams(e, p) ==
  [e EXCEPT !.attack = p.attack, !.hold = p.hold, !.decay = p.decay,
            !.sustain = p.sustain, !.release = p.release]

\* AhdsrState::set_stage
SetStage(e, stage) ==
  LET start == EndpointValues(stage, e.current, e.sustain)[1]
  IN  [e EXCEPT !.current_stage = stage,
                !.samples_since_stage_start = 0,
                !.current = start,
                !.last_value_at_transition = start]

\* AhdsrState::trigger
Trigger(e, triggered) ==
  SetStage(e, IF triggered THEN "Attack" ELSE "Release")

\* the match of AhdsrState::advance that reads a timed stage's duration
StageTime(e, stage) ==
  CASE stage = "Attack" -> e.attack
    [] stage = "Hold" -> e.hold
    [] stage = "Decay" -> e.decay
    [] stage = "Release" -> e.release

\* a stage of duration 0 is entered too
HasLengthOrZero(time) == RGeq(time, Zero)

\* a stage is entered unless its duration is exactly 0
HasLengthNonZero(time) == time # Zero

\* `if time > 0.0 { break time; }`
HasLength(time) == RGt(time, Zero)

\* the loop run at most once: one zero-length stage is skipped, not all of them
SkipAtMostOne(e) ==
  IF e.current_stage \in {"NotTriggered", "Sustain"} THEN e
  ELSE IF HasLength(StageTime(e, e.current_stage)) THEN e
  ELSE SetStage(e, NextStage(e.current_stage))

\* the loop of AhdsrState::advance: leaves on NotTriggered and Sustain (the
\* early returns) and on a timed stage of positive length, and otherwise
\* moves to the next stage
RECURSIVE SkipZeroLength(_)
SkipZeroLength(e) ==
  IF e.current_stage \in {"NotTriggered", "Sustain"} THEN e
  ELSE IF HasLength(StageTime(e, e.current_stage)) THEN e
  ELSE SkipZeroLength(SetStage(e, NextStage(e.current_stage)))

\* the comparison made strict
StageElapsedStrict(time_since_stage_start, stage_time) ==
  RGt(time_since_stage_start, stage_time)

\* `if time_since_stage_start >= stage_time`
StageElapsed(time_since_stage_start, stage_time) ==
  RGeq(time_since_stage_start, stage_time)

\* `lerp(t, start_value.powf(0.5), end_value.powf(0.5)).powf(2.0)`
Shape(t, start_value, end_value) ==
  Sq(Lerp(t, Sqrt(start_value), Sqrt(end_value)))

\* AhdsrState::advance: [env |-> the state after the call, ret |-> its result,
\* div |-> the division `time_since_stage_start / stage_time` if the call got
\* that far]
Advance(e) ==
  LET seconds_per_sample == Recip(e.sample_rate)
      e1 == SkipZeroLength(e)
  IN  IF e1.current_stage = "NotTriggered" THEN
        [env |-> e1, ret |-> Zero, div |-> <<>>]
      ELSE IF e1.current_stage = "Sustain" THEN
        [env |-> e1, ret |-> e1.sustain, div |-> <<>>]
      ELSE
        LET stage_time == StageTime(e1, e1.current_stage)
            elapsed == RMul(AsF32(e1.samples_since_stage_start), seconds_per_sample)
            over == StageElapsed(elapsed, stage_time)
            e2 == IF over THEN SetStage(e1, NextStage(e1.current_stage)) ELSE e1
            time_since_stage_start == IF over THEN Zero ELSE elapsed
            e3 == [e2 EXCEPT !.samples_since_stage_start = @ + 1]
            ends == EndpointValues(e3.current_stage, e3.last_value_at_transition,
                                   e3.sustain)
            t == RDiv(time_since_stage_start, stage_time)
            value == Shape(t, ends[1], ends[2])
        IN  [env |-> [e3 EXCEPT !.current = value], ret |-> value,
             div |-> <<[time_since_stage_start |-> time_since_stage_start,
                        stage_time |-> stage_time,
                        t |-> t]>>]

\* ------------------------------------------------------------------------
\* OscillatorState (src/src/lib.rs 328-343)
\* ------------------------------------------------------------------------

\* #[derive(Default)] OscillatorState
OscillatorStateDefault == [sample_rate |-> 0, phase |-> Zero]

\* f32::floor of a finite value
Floor(a) == <<a[1] \div a[2], 1>>

\* the wrap that takes off one cycle: `self.phase -= 1.0`
WrapPhaseOnce(phase) ==
  IF RGeq(phase, One) THEN RSub(phase, One) ELSE phase

\* `if self.phase >= 1.0 { self.phase -= f32::floor(self.phase); }`
WrapPhase(phase) ==
  IF RGeq(phase, One) THEN
    (IF IsFinite(phase) THEN RSub(phase, Floor(phase)) ELSE NaN)
  ELSE phase

\* advance() handing back the phase after the increment
OscAdvanceReturnsNew(o, frequency) ==
  LET phase == WrapPhase(RAdd(o.phase, RMul(frequency, Recip(o.sample_rate))))
  IN  [osc |-> [o EXCEPT !.phase = phase], ret |-> phase]

\* OscillatorState::advance: [osc |-> the state after the call, ret |-> old_phase]
OscAdvance(o, frequency) ==
  LET old_phase == o.phase
      stepped == RAdd(o.phase, RMul(frequency, Recip(o.sample_rate)))
  IN  [osc |-> [o EXCEPT !.phase = WrapPhase(stepped)], ret |-> old_phase]

\* ------------------------------------------------------------------------
\* KickSynth (src/src/lib.rs 6-17, 162-175, 251-312)
\* ------------------------------------------------------------------------

\* Default for KickSynth
KickSynthDefault ==
  [sample_rate |-> 0,
   osc_state |-> OscillatorStateDefault,
   pitch_env_state |-> AhdsrStateDefault(0),
   amp_env_state |-> AhdsrStateDefault(0),
   last_midi_note |-> <<>>,
   midi_frequency |-> <<200, 1>>,
   midi_velocity |-> Zero]

\* Plugin::initialize
Initialize(k, rate) ==
  [k EXCEPT !.sample_rate = rate,
            !.osc_state.sample_rate = rate,
            !.pitch_env_state.sample_rate = rate,
            !.amp_env_state.sample_rate = rate]

RECURSIVE Pow2(_)
Pow2(n) == IF n = 0 THEN 1 ELSE 2 * Pow2(n - 1)

\* util::midi_note_to_freq, 440 * 2^((note - 69) / 12), on the notes a whole
\* number of octaves from note 69
MidiNoteToFreq(note) ==
  IF note >= 69 THEN <<440 * Pow2((note - 69) \div 12), 1>>
  ELSE Rat(440, Pow2((69 - note) \div 12))

\* the guard that honours every note-off
NoteOffAlways(note, last_midi_note) == TRUE

\* the guard of the NoteOff arm: `if Some(note) == self.last_midi_note`
NoteOffMatches(note, last_midi_note) == <<note>> = last_midi_note

\* the match with a NoteOff arm that releases the envelopes but forgets to
\* clear the held note
HandleEventKeepsNote(k, event, phase_offset) ==
  IF event.kind = "NoteOn" THEN
    [k EXCEPT !.midi_frequency = MidiNoteToFreq(event.note),
              !.midi_velocity = event.velocity,
              !.last_midi_note = <<event.note>>,
              !.amp_env_state = Trigger(@, TRUE),
              !.pitch_env_state = Trigger(@, TRUE),
              !.osc_state.phase = phase_offset]
  ELSE IF event.kind = "NoteOff" /\ NoteOffMatches(event.note, k.last_midi_note) THEN
    [k EXCEPT !.amp_env_state = Trigger(@, FALSE),
              !.pitch_env_state = Trigger(@, FALSE)]
  ELSE k

\* the match of KickSynth::process on one event; phase_offset is
\* params.phase_offset.modulated_plain_value()
HandleEvent(k, event, phase_offset) ==
  IF event.kind = "NoteOn" THEN
    [k EXCEPT !.midi_frequency = MidiNoteToFreq(event.note),
              !.midi_velocity = event.velocity,
              !.last_midi_note = <<event.note>>,
              !.amp_env_state = Trigger(@, TRUE),
              !.pitch_env_state = Trigger(@, TRUE),
              !.osc_state.phase = phase_offset]
  ELSE IF event.kind = "NoteOff" /\ NoteOffMatches(event.note, k.last_midi_note) THEN
    [k EXCEPT !.last_midi_note = <<>>,
              !.amp_env_state = Trigger(@, FALSE),
              !.pitch_env_state = Trigger(@, FALSE)]
  ELSE k

\* the event is applied one sample late
EventDueLate(event, sample_id) == event.timing < sample_id

\* `if event.timing() > sample_id as u32 { break; }`
EventDue(event, sample_id) == ~(event.timing > sample_id)

\* the sweep the wrong way round: end_freq at envelope 1
PitchFrequencySwapped(pitch_env, start_freq, end_freq) ==
  Lerp(pitch_env, start_freq, end_freq)

\* `let freq = lerp(pitch_env, end_freq, start_freq);`
PitchFrequency(pitch_env, start_freq, end_freq) ==
  Lerp(pitch_env, end_freq, start_freq)

\* the body of the sample loop of KickSynth::process after the events: p holds
\* this sample's smoothed parameter values.  The sample written to the buffer
\* is amp_env * sin(TAU * phase), kept as its two factors.
RenderSample(k, p) ==
  LET pitch0 == ApplyParams(k.pitch_env_state, p.pitch_env)
      amp0 == ApplyParams(k.amp_env_state, p.amp_env)
      pitch == Advance(pitch0)
      amp == Advance(amp0)
      freq == PitchFrequency(pitch.ret, p.start_freq, p.end_freq)
      osc == OscAdvance(k.osc_state, freq)
  IN  [ks |-> [k EXCEPT !.pitch_env_state = pitch.env,
                        !.amp_env_state = amp.env,
                        !.osc_state = osc.osc],
       pitch_env |-> pitch.ret,
       amp_env |-> amp.ret,
       freq |-> freq,
       sample |-> [amp_env |-> amp.ret, phase |-> osc.ret]]

\* ------------------------------------------------------------------------
\* Inputs
\* ------------------------------------------------------------------------

\* host sample rates (Hz)
SampleRates == {2}

\* the rates of a host that changes its rate between blocks
ChangingRates == {1, 2}

\* sample rates of the envelope driven alone: a duration of 1 s is 1 or 2 samples
EnvRates == {1, 2}

\* stage durations (seconds) the parameter layer hands over
Durations == {Zero, One}

\* sustain levels
Levels == {Zero, <<1, 4>>, One}

AhdsrValues ==
  [attack : Durations, hold : Durations, decay : Durations,
   sustain : Levels, release : Durations]

\* stage durations with a negative one among them
SignedDurations == {<<-1, 1>>, Zero, One}

SignedAhdsrValues ==
  [attack : SignedDurations, hold : SignedDurations, decay : SignedDurations,
   sustain : {<<1, 4>>}, release : SignedDurations]

\* the same parameter values with 0 in place of every negative duration
ZeroForNegative(p) ==
  LET AtLeastZero(time) == IF RLt(time, Zero) THEN Zero ELSE time
  IN  [attack |-> AtLeastZero(p.attack), hold |-> AtLeastZero(p.hold),
       decay |-> AtLeastZero(p.decay), sustain |-> p.sustain,
       release |-> AtLeastZero(p.release)]

\* the oscillator driven alone: its rates, the phases it starts from and the
\* frequencies (Hz) it is advanced with, some of them above the rate
OscRates == {2, 3}

OscStartPhases == {Zero, <<1, 4>>, <<2, 3>>, <<11, 12>>}

OscFrequencies == {Zero, <<1, 3>>, One, <<5, 1>>, <<41, 1>>, <<1000, 1>>}

\* buffer lengths (samples) the host asks for
BlockLens == {1, 2}

\* MIDI notes
Notes == {57, 69}

\* the note events of a block of len samples: note on, note off, and one event
\* the voice has no arm for
Events(len) ==
  [kind : {"NoteOn", "NoteOff"}, note : Notes, timing : 0..(len - 1), velocity : {One}]
    \cup [kind : {"Choke"}, note : {69}, timing : 0..(len - 1), velocity : {Zero}]

IsTimeOrdered(events) ==
  \A i \in 1..(Len(events) - 1) : events[i].timing <= events[i + 1].timing

\* the event lists a block of len samples can bring: at most n events, ordered
\* by their sample offset
EventLists(n, len) ==
  {events \in UNION {[1..k -> Events(len)] : k \in 0..n} : IsTimeOrdered(events)}

\* the value of phase_offset (its default; the parameter ranges over [0, 1])
PhaseOffsets == {<<1, 4>>}

\* phase_offset over its range, `FloatRange::Linear { min: 0.0, max: 1.0 }`:
\* the default and the upper end
PhaseOffsetRange == {<<1, 4>>, One}

\* one sample's smoothed parameter values: the defaults of the envelopes
\* stretched to whole samples, and a setting with an attack and a sustain level
VoiceParams ==
  {[pitch_env |-> [attack |-> Zero, hold |-> Zero, decay |-> One, sustain |-> Zero,
                   release |-> One],
    amp_env |-> [attack |-> Zero, hold |-> Zero, decay |-> One, sustain |-> Zero,
                 release |-> One],
    start_freq |-> <<1000, 1>>, end_freq |-> <<41, 1>>],
   [pitch_env |-> [attack |-> Zero, hold |-> One, decay |-> Zero, sustain |-> One,
                   release |-> Zero],
    amp_env |-> [attack |-> One, hold |-> Zero, decay |-> Zero, sustain |-> <<1, 4>>,
                 release |-> One],
    start_freq |-> <<1000, 1>>, end_freq |-> <<41, 1>>]}

\* ------------------------------------------------------------------------
\* State
\* ------------------------------------------------------------------------

VARIABLES
  env,    \* one AhdsrState, driven call by call
  ret,    \* the value the last advance() of env returned (0 before the first)
  hist,   \* what the last call on env was, and what it started from
  scn,    \* the amplitude scenario: samples rendered so far, the previous output
  twin,   \* a second AhdsrState given the calls of env, and its last result
  ks,     \* the KickSynth
  proc,   \* the position of KickSynth::process in the block it is rendering
  obs     \* what the voice did last, and what the block has seen so far

vars == <<env, ret, hist, scn, twin, ks, proc, obs>>

envVars == <<env, ret, hist, scn, twin>>

voiceVars == <<ks, proc, obs>>

ProcIdle ==
  [pc |-> "idle", queue |-> <<>>, next_event |-> <<>>, sample_id |-> 0, len |-> 0]

ObsInit ==
  [op |-> "init",
   events |-> 0,      \* events handed to process() so far
   samples |-> 0,     \* samples rendered so far
   block |-> <<>>,    \* the events of the current block, in arrival order
   applied |-> <<>>,  \* the events of the block applied so far, in order
   rendered |-> <<>>, \* the sample indices of the block rendered so far
   event |-> <<>>,    \* the event the last step handled
   pre |-> <<>>,      \* the KickSynth before that event, or before initialize
   reset |-> <<>>,    \* the phase a note-on wrote since the last rendered sample
   out |-> <<>>]      \* what the last rendered sample was made of

VoiceIdle ==
  /\ ks = KickSynthDefault
  /\ proc = ProcIdle
  /\ obs = ObsInit

ScnInit == [done |-> 0, prev |-> Zero]

TwinInit == [env |-> AhdsrStateDefault(0), ret |-> Zero]

\* ------------------------------------------------------------------------
\* The envelope alone: trigger, apply_params and advance in any order
\* ------------------------------------------------------------------------

HistInit ==
  [op |-> "init",
   gate |-> FALSE,
   triggers |-> 0,              \* trigger() calls so far
   advSinceTrigger |-> 0,       \* advance() calls since the last trigger, up to 2
   triggered |-> FALSE,         \* a trigger() has happened
   trigInTimed |-> FALSE,       \* the last trigger() found a timed stage
   preStage |-> "NotTriggered", \* stage before the last call
   preSamples |-> 0,            \* counter before the last call
   preRet |-> Zero,             \* last advance() result before the last call
   preSteady |-> <<>>,          \* steady before the last call
   div |-> <<>>,                \* the division of the last call, an advance()
   steady |-> <<>>]             \* <<D>>: every result of the stage so far saw duration D

InitEnv ==
  /\ \E rate \in EnvRates : env = AhdsrStateDefault(rate)
  /\ ret = Zero
  /\ hist = HistInit
  /\ scn = ScnInit
  /\ twin = TwinInit
  /\ VoiceIdle

Pre(op) ==
  [hist EXCEPT !.op = op,
               !.preStage = env.current_stage,
               !.preSamples = env.samples_since_stage_start,
               !.preRet = ret,
               !.preSteady = hist.steady,
               !.div = <<>>]

EnvTrigger(triggered) ==
  /\ hist.triggers < MaxTriggers
  /\ env' = Trigger(env, triggered)
  /\ ret' = ret
  /\ hist' = [Pre("trigger") EXCEPT
                !.gate = triggered,
                !.triggers = @ + 1,
                !.advSinceTrigger = 0,
                !.triggered = TRUE,
                !.trigInTimed = env.current_stage \in TimedStages,
                !.steady = <<>>]
  /\ UNCHANGED <<scn, twin, ks, proc, obs>>

EnvApplyParams(p) ==
  /\ env' = ApplyParams(env, p)
  /\ ret' = ret
  /\ hist' = Pre("apply_params")
  /\ UNCHANGED <<scn, twin, ks, proc, obs>>

EnvAdvance ==
  LET r == Advance(env)
      post == r.env
      dur == StageTime(post, post.current_stage)
  IN  /\ env' = post
      /\ ret' = r.ret
      /\ hist' = [Pre("advance") EXCEPT
                    !.advSinceTrigger = IF @ < 2 THEN @ + 1 ELSE @,
                    !.div = r.div,
                    !.steady =
                      IF post.current_stage \notin TimedStages THEN <<>>
                      ELSE IF post.samples_since_stage_start = 1 THEN <<dur>>
                      ELSE IF hist.steady = <<dur>> THEN hist.steady
                      ELSE <<>>]
      /\ UNCHANGED <<scn, twin, ks, proc, obs>>

NextEnv ==
  \/ \E triggered \in BOOLEAN : EnvTrigger(triggered)
  \/ \E p \in AhdsrValues : EnvApplyParams(p)
  \/ EnvAdvance

Spec == InitEnv /\ [][NextEnv]_vars

\* every level the envelope holds is the square of a rational, so Sqrt is exact
IsSquare(a) == Sq(Sqrt(a)) = a

TypeOK ==
  /\ env.current_stage \in AhdsrStage
  /\ IsSquare(env.current)
  /\ IsSquare(env.last_value_at_transition)
  /\ IsSquare(ret)

\* ------------------------------------------------------------------------
\* Properties of the envelope
\* ------------------------------------------------------------------------

\* the stage cycle of the envelope: Idle, Attack, Hold, Decay, Sustain, Release
CycleNext(stage) ==
  CASE stage = "NotTriggered" -> "Attack"
    [] stage = "Attack" -> "Hold"
    [] stage = "Hold" -> "Decay"
    [] stage = "Decay" -> "Sustain"
    [] stage = "Sustain" -> "Release"
    [] stage = "Release" -> "NotTriggered"

Untimed == {"NotTriggered", "Sustain"}

Positive(a) == IsFinite(a) /\ a[1] > 0

\* the first stage of the cycle, from `stage` on, that is untimed or has a
\* positive duration under the parameters of e
RECURSIVE FirstLanding(_, _)
FirstLanding(e, stage) ==
  IF stage \in Untimed THEN stage
  ELSE IF Positive(StageTime(e, stage)) THEN stage
  ELSE FirstLanding(e, CycleNext(stage))

ForcedStage == IF hist.gate THEN "Attack" ELSE "Release"

\* the last call was the first advance() after a trigger()
FirstAdvanceAfterTrigger ==
  hist.op = "advance" /\ hist.triggered /\ hist.advSinceTrigger = 1

\* C1: the first advance() after a trigger lands on the first stage of the
\* cycle, starting from the triggered stage, that has a positive duration or
\* is Idle/Sustain; with attack = hold = decay = 0 after trigger(true) that is
\* Sustain and the call returns the sustain level.
C1_ZeroStagesSkipped ==
  FirstAdvanceAfterTrigger =>
    /\ env.current_stage = FirstLanding(env, ForcedStage)
    /\ (hist.gate /\ env.attack = Zero /\ env.hold = Zero /\ env.decay = Zero) =>
         (env.current_stage = "Sustain" /\ ret = env.sustain)

C1_Witness ==
  /\ FirstAdvanceAfterTrigger
  /\ hist.gate /\ env.attack = Zero /\ env.hold = Zero /\ env.decay = Zero
  /\ env.sustain = <<1, 4>>
  /\ hist.preStage = "Attack"
  /\ env.current_stage = "Sustain" /\ ret = <<1, 4>>

\* C2: whenever advance() returns, the current stage is Idle, Sustain, or a
\* timed stage whose duration for that sample is > 0.
C2_NormalizedAfterAdvance ==
  hist.op = "advance" =>
    \/ env.current_stage \in Untimed
    \/ Positive(StageTime(env, env.current_stage))

\* C3: trigger(gate_on) sets the stage to Attack (true) or Release (false),
\* resets the elapsed-sample counter to 0 and captures, as the new segment's
\* starting value, the value the most recent advance() returned.
C3_TriggerCapturesOutput ==
  hist.op = "trigger" =>
    /\ env.current_stage = ForcedStage
    /\ env.samples_since_stage_start = 0
    /\ env.last_value_at_transition = ret

\* N = D * sample_rate, when that is an integer
IsWholeSamples(d, rate) == RMul(d, AsF32(rate))[2] = 1

WholeSamples(d, rate) == RMul(d, AsF32(rate))[1]

\* the last call was an advance() that began in timed stage hist.preStage, which
\* had produced hist.preSamples results, all under the duration this call saw
SteadyAdvance ==
  /\ hist.op = "advance"
  /\ hist.preStage \in TimedStages
  /\ Positive(StageTime(env, hist.preStage))
  /\ hist.preSamples = 0 \/ hist.preSteady = <<StageTime(env, hist.preStage)>>
  /\ IsWholeSamples(StageTime(env, hist.preStage), env.sample_rate)

\* C4: with a duration D > 0, N = D * sample_rate an integer, constant
\* parameters and no trigger, a timed stage produces exactly N advance()
\* results: it is never left before N results, and the call after the N-th
\* moves to the following stage of the cycle.
C4_SampleAccurateTiming ==
  SteadyAdvance =>
    LET n == WholeSamples(StageTime(env, hist.preStage), env.sample_rate)
    IN  /\ hist.preSamples <= n
        /\ hist.preSamples < n =>
             /\ env.current_stage = hist.preStage
             /\ env.samples_since_stage_start = hist.preSamples + 1
        /\ hist.preSamples = n =>
             env.current_stage = CycleNext(hist.preStage)

C4_Witness ==
  /\ SteadyAdvance
  /\ hist.preStage = "Decay"
  /\ hist.preSamples = WholeSamples(env.decay, env.sample_rate)
  /\ hist.preSamples >= 2
  /\ env.current_stage = "Sustain"

\* C5: when a trigger is applied while the envelope is in a timed stage and the
\* forced stage has a positive duration, the first advance() after the trigger
\* returns exactly the value the last advance() before the trigger returned.
C5_ForcedTransitionContinues ==
  (/\ FirstAdvanceAfterTrigger
   /\ hist.trigInTimed
   /\ Positive(StageTime(env, ForcedStage))) =>
    ret = hist.preRet

InUnit(a) == IsFinite(a) /\ RGeq(a, Zero) /\ RLeq(a, One)

\* C6: with sustain in [0,1] and durations >= 0, every value advance() returns,
\* the stored current output and the captured transition value are in [0,1].
C6_OutputInUnitInterval ==
  /\ InUnit(ret)
  /\ InUnit(env.current)
  /\ InUnit(env.last_value_at_transition)

C6_Witness ==
  /\ hist.op = "advance"
  /\ env.current_stage = "Release"
  /\ RGt(ret, Zero) /\ RLt(ret, <<1, 4>>)
  /\ RGt(env.last_value_at_transition, ret)

\* the last call was an advance() that left a timed stage because its time
\* had elapsed
NaturalTransition ==
  /\ hist.op = "advance"
  /\ hist.preStage \in TimedStages
  /\ Positive(StageTime(env, hist.preStage))
  /\ env.current_stage # hist.preStage

\* the value a segment ends on: 1 for Attack and Hold, the sustain level for
\* Decay, 0 for Release
SegmentEnd(stage, sustain) ==
  CASE stage \in {"Attack", "Hold"} -> One
    [] stage = "Decay" -> sustain
    [] stage = "Release" -> Zero

\* C7: at every natural stage boundary (Attack->Hold, Hold->Decay,
\* Decay->Sustain, Release->Idle) the value returned by the advance() that
\* enters the next stage equals the end value of the segment being left.
C7_ContinuousAtBoundaries ==
  NaturalTransition =>
    /\ env.current_stage = CycleNext(hist.preStage)
    /\ ret = SegmentEnd(hist.preStage, env.sustain)

C7_Witness ==
  /\ NaturalTransition
  /\ hist.preStage = "Decay"
  /\ env.current_stage = "Sustain"
  /\ env.sustain = <<1, 4>>
  /\ ret = <<1, 4>>

\* ------------------------------------------------------------------------
\* The amplitude envelope scenario: attack = hold = 0, decay = 0.5 s,
\* sustain = 0, release = 0.5 s (the defaults of the amplitude envelope),
\* trigger(true) before sample 0, trigger(false) before sample E2EHalf, the
\* parameters re-applied and advance() called once per sample
\* ------------------------------------------------------------------------

\* AhdsrValues::ahdsr(0.0, 0.0, 0.5, 0.0, 0.5)
AmpEnvDefaults ==
  [attack |-> Zero, hold |-> Zero, decay |-> <<1, 2>>, sustain |-> Zero,
   release |-> <<1, 2>>]

\* the rate at which half a second is E2EHalf samples
E2ERate == 2 * E2EHalf

InitE2E ==
  /\ env = AhdsrStateDefault(E2ERate)
  /\ ret = Zero
  /\ hist = HistInit
  /\ scn = ScnInit
  /\ twin = TwinInit
  /\ VoiceIdle

\* the note-on before sample 0 and the note-off before sample E2EHalf
E2ETrigger ==
  /\ \/ scn.done = 0 /\ hist.triggers = 0
     \/ scn.done = E2EHalf /\ hist.triggers = 1
  /\ env' = Trigger(env, scn.done = 0)
  /\ ret' = ret
  /\ hist' = [Pre("trigger") EXCEPT
                !.gate = (scn.done = 0),
                !.triggers = @ + 1,
                !.advSinceTrigger = 0,
                !.triggered = TRUE,
                !.trigInTimed = env.current_stage \in TimedStages,
                !.steady = <<>>]
  /\ UNCHANGED <<scn, twin, ks, proc, obs>>

\* one sample: apply_params, then advance
E2ESample ==
  /\ scn.done <= 2 * E2EHalf
  /\ \/ scn.done \in 1..(E2EHalf - 1) /\ hist.triggers = 1
     \/ scn.done = 0 /\ hist.triggers = 1
     \/ scn.done >= E2EHalf /\ hist.triggers = 2
  /\ LET r == Advance(ApplyParams(env, AmpEnvDefaults))
     IN  /\ env' = r.env
         /\ ret' = r.ret
         /\ hist' = [Pre("advance") EXCEPT
                       !.advSinceTrigger = IF @ < 2 THEN @ + 1 ELSE @]
         /\ scn' = [done |-> scn.done + 1, prev |-> ret]
         /\ UNCHANGED <<twin, voiceVars>>

NextE2E ==
  \/ E2ETrigger
  \/ E2ESample

SpecE2E == InitE2E /\ [][NextE2E]_vars

\* C8: in the amplitude scenario the output never increases from sample 0 on,
\* the output of sample E2EHalf (the first after the forced Release) continues
\* from the value of the sample before it and is not reset to 1, and the
\* output of sample 2 * E2EHalf is exactly 0 with the envelope back in Idle.
C8_AmplitudeScenario ==
  /\ (hist.op = "advance" /\ scn.done >= 2) => RLeq(ret, scn.prev)
  /\ (hist.op = "advance" /\ scn.done = E2EHalf + 1) =>
       (ret = scn.prev /\ RLt(ret, One) /\ env.current_stage = "Release")
  /\ (hist.op = "advance" /\ scn.done = 2 * E2EHalf + 1) =>
       (ret = Zero /\ env.current_stage = "NotTriggered")

C8_Witness ==
  /\ hist.op = "advance"
  /\ scn.done = 2 * E2EHalf + 1
  /\ hist.triggers = 2
  /\ RGt(scn.prev, Zero)
  /\ ret = Zero
  /\ env.current_stage = "NotTriggered"

\* ------------------------------------------------------------------------
\* The voice: Plugin::initialize and Plugin::process, one step of the sample
\* loop at a time
\* ------------------------------------------------------------------------

InitVoice ==
  /\ env = AhdsrStateDefault(0)
  /\ ret = Zero
  /\ hist = HistInit
  /\ scn = ScnInit
  /\ twin = TwinInit
  /\ VoiceIdle

\* Plugin::initialize, between blocks
VoiceInitialize(rate) ==
  /\ proc.pc = "idle"
  /\ ks' = Initialize(ks, rate)
  /\ obs' = [obs EXCEPT !.op = "initialize", !.event = <<>>, !.pre = <<ks>>]
  /\ UNCHANGED <<proc, envVars>>

\* process() is entered with a buffer of len samples and the block's events:
\* `let mut next_event = context.next_event();`
ProcessEnter(len, events) ==
  /\ proc.pc = "idle"
  /\ obs.samples + len <= MaxSamples
  /\ obs.events + Len(events) <= MaxEvents
  /\ proc' = [pc |-> "loop",
              queue |-> IF events = <<>> THEN <<>> ELSE Tail(events),
              next_event |-> IF events = <<>> THEN <<>> ELSE <<Head(events)>>,
              sample_id |-> 0,
              len |-> len]
  /\ obs' = [obs EXCEPT !.op = "begin",
                        !.events = @ + Len(events),
                        !.block = events,
                        !.applied = <<>>,
                        !.rendered = <<>>,
                        !.event = <<>>,
                        !.pre = <<>>,
                        !.out = <<>>]
  /\ UNCHANGED <<ks, envVars>>

\* the host calls process() once initialize() has set the sample rate
ProcessBegin(len, events) ==
  /\ ks.sample_rate # 0
  /\ ProcessEnter(len, events)

\* one turn of `while let Some(event) = next_event`: the event is due, it is
\* matched, and the next one is fetched
ProcessEvent(phase_offset) ==
  /\ proc.pc = "loop"
  /\ proc.sample_id < proc.len
  /\ proc.next_event # <<>>
  /\ EventDue(proc.next_event[1], proc.sample_id)
  /\ ks' = HandleEvent(ks, proc.next_event[1], phase_offset)
  /\ proc' = [proc EXCEPT
                !.next_event = IF proc.queue = <<>> THEN <<>> ELSE <<Head(proc.queue)>>,
                !.queue = IF proc.queue = <<>> THEN <<>> ELSE Tail(proc.queue)]
  /\ obs' = [obs EXCEPT !.op = "event",
                        !.applied = Append(@, proc.next_event[1]),
                        !.event = proc.next_event,
                        !.pre = <<ks>>,
                        !.reset = IF proc.next_event[1].kind = "NoteOn"
                                  THEN <<phase_offset>> ELSE @]
  /\ UNCHANGED envVars

\* the rest of the loop body: no event is due any more, the sample is rendered
ProcessSample(p) ==
  /\ proc.pc = "loop"
  /\ proc.sample_id < proc.len
  /\ IF proc.next_event = <<>> THEN TRUE
     ELSE ~EventDue(proc.next_event[1], proc.sample_id)
  /\ \E r \in {RenderSample(ks, p)} :
         /\ ks' = r.ks
         /\ obs' = [obs EXCEPT !.op = "sample",
                               !.samples = @ + 1,
                               !.rendered = Append(@, proc.sample_id),
                               !.event = <<>>,
                               !.pre = <<>>,
                               !.reset = <<>>,
                               !.out = <<[sample |-> r.sample,
                                          pitch_env |-> r.pitch_env,
                                          freq |-> r.freq,
                                          p |-> p,
                                          phase_before |-> ks.osc_state.phase,
                                          reset |-> obs.reset]>>]
  /\ proc' = [proc EXCEPT !.sample_id = @ + 1]
  /\ UNCHANGED envVars

\* the buffer is full: `ProcessStatus::KeepAlive`; the events not applied are
\* dropped with the block
ProcessReturn ==
  /\ proc.pc = "loop"
  /\ proc.sample_id = proc.len
  /\ proc' = ProcIdle
  /\ obs' = [obs EXCEPT !.op = "return",
                        !.block = <<>>,
                        !.applied = <<>>,
                        !.rendered = <<>>,
                        !.event = <<>>,
                        !.pre = <<>>,
                        !.out = <<>>]
  /\ UNCHANGED <<ks, envVars>>

NextVoice ==
  \/ \E rate \in SampleRates : VoiceInitialize(rate)
  \/ \E len \in BlockLens : \E events \in EventLists(MaxEvents - obs.events, len) :
       ProcessBegin(len, events)
  \/ \E phase_offset \in PhaseOffsets : ProcessEvent(phase_offset)
  \/ \E p \in VoiceParams : ProcessSample(p)
  \/ ProcessReturn

SpecVoice == InitVoice /\ [][NextVoice]_vars

\* the voice under a host that changes the sample rate between blocks and
\* with phase_offset over its range
NextVoiceWide ==
  \/ \E rate \in ChangingRates : VoiceInitialize(rate)
  \/ \E len \in BlockLens : \E events \in EventLists(MaxEvents - obs.events, len) :
       ProcessBegin(len, events)
  \/ \E phase_offset \in PhaseOffsetRange : ProcessEvent(phase_offset)
  \/ \E p \in VoiceParams : ProcessSample(p)
  \/ ProcessReturn

SpecVoiceWide == InitVoice /\ [][NextVoiceWide]_vars

\* process() on the KickSynth as constructed, initialize() never called:
\* sample_rate is still 0.0
NextUninitialized ==
  \/ \E len \in BlockLens : \E events \in EventLists(MaxEvents - obs.events, len) :
       ProcessEnter(len, events)
  \/ \E phase_offset \in PhaseOffsets : ProcessEvent(phase_offset)
  \/ \E p \in VoiceParams : ProcessSample(p)
  \/ ProcessReturn

SpecUninitialized == InitVoice /\ [][NextUninitialized]_vars

\* the levels of both envelopes of the voice are squares of rationals
VoiceTypeOK ==
  /\ IsSquare(ks.pitch_env_state.current)
  /\ IsSquare(ks.pitch_env_state.last_value_at_transition)
  /\ IsSquare(ks.amp_env_state.current)
  /\ IsSquare(ks.amp_env_state.last_value_at_transition)
  /\ proc.next_event # <<>> => proc.pc = "loop"
  /\ proc.pc = "loop" => proc.sample_id <= proc.len

\* the index of the sample rendered last in the current block
LastRendered == obs.rendered[Len(obs.rendered)]

\* the events of the block with a sample offset of at most i, in arrival order
DueBy(i) ==
  LET Due(event) == event.timing <= i
  IN  SelectSeq(obs.block, Due)

\* C9: within a block, when sample i is rendered the events applied so far are
\* exactly the events with offset <= i, in arrival order (none with a larger
\* offset), and the samples are rendered once each, in order.
C9_EventsInterleaved ==
  /\ obs.applied = SubSeq(obs.block, 1, Len(obs.applied))
  /\ \A j \in 1..Len(obs.rendered) : obs.rendered[j] = j - 1
  /\ obs.op = "sample" => obs.applied = DueBy(LastRendered)

C9_Witness ==
  /\ obs.op = "sample"
  /\ LastRendered = 0
  /\ Len(obs.block) = 3
  /\ obs.block[2].timing = 0
  /\ obs.block[3].timing = 1
  /\ Len(obs.applied) = 2

\* C10: a note-off whose note is not the held note (none held, or another note
\* held) changes nothing: the held note, both envelopes and the oscillator are
\* as they were.
C10_MismatchedNoteOffIgnored ==
  (/\ obs.op = "event"
   /\ obs.event[1].kind = "NoteOff"
   /\ obs.pre[1].last_midi_note # <<obs.event[1].note>>) =>
    ks = obs.pre[1]

C10_Witness ==
  /\ obs.op = "event"
  /\ obs.event[1].kind = "NoteOff"
  /\ obs.event[1].note = 57
  /\ obs.pre[1].last_midi_note = <<69>>
  /\ Len(obs.applied) = 3
  /\ obs.applied[1].kind = "NoteOn" /\ obs.applied[1].note = 57
  /\ ks.last_midi_note = <<69>>
  /\ ks.amp_env_state.current_stage = "Attack"

\* ------------------------------------------------------------------------
\* The oscillator alone: OscillatorState::advance with any frequency
\* ------------------------------------------------------------------------

InitOsc ==
  /\ env = AhdsrStateDefault(0)
  /\ ret = Zero
  /\ hist = HistInit
  /\ scn = ScnInit
  /\ twin = TwinInit
  /\ \E rate \in OscRates : \E phase \in OscStartPhases :
       ks = [KickSynthDefault EXCEPT
               !.osc_state = [sample_rate |-> rate, phase |-> phase]]
  /\ proc = ProcIdle
  /\ obs = ObsInit

OscStep(frequency) ==
  LET r == OscAdvance(ks.osc_state, frequency)
  IN  /\ ks' = [ks EXCEPT !.osc_state = r.osc]
      /\ obs' = [obs EXCEPT
                   !.op = "osc_advance",
                   !.out = <<[frequency |-> frequency,
                              phase_before |-> ks.osc_state.phase,
                              ret |-> r.ret]>>]
      /\ UNCHANGED <<proc, envVars>>

NextOsc == \E frequency \in OscFrequencies : OscStep(frequency)

SpecOsc == InitOsc /\ [][NextOsc]_vars

\* 0 <= a < 1
InCycle(a) == IsFinite(a) /\ a[1] >= 0 /\ a[1] < a[2]

\* C11: from any starting phase in [0,1) and for any frequency >= 0, also one
\* that advances the phase by more than a cycle per sample, the phase is in
\* [0,1) after every advance().
C11_PhaseStaysInCycle == InCycle(ks.osc_state.phase)

C11_Witness ==
  /\ obs.op = "osc_advance"
  /\ RGeq(RAdd(obs.out[1].phase_before,
               RMul(obs.out[1].frequency, Recip(ks.osc_state.sample_rate))),
          <<2, 1>>)
  /\ RGt(obs.out[1].phase_before, Zero)
  /\ InCycle(ks.osc_state.phase)
  /\ ks.osc_state.phase # Zero

\* ------------------------------------------------------------------------
\* Properties of the voice's oscillator
\* ------------------------------------------------------------------------

\* C12: the oscillator's phase is in [0,1) in every reachable state of the
\* voice, also right after a note-on has reset it to phase_offset, for any
\* value of that parameter in its range [0, 1].
C12_VoicePhaseInCycle == InCycle(ks.osc_state.phase)

\* a mod 1, for a finite a
Mod1(a) == Rat(a[1] % a[2], a[2])

\* C13: advance() returns the phase from before the increment, so the first
\* sample rendered after a note-on uses exactly the phase the note-on wrote,
\* and the phase afterwards is (old phase + frequency / sample_rate) mod 1.
C13_AdvanceReturnsOldPhase ==
  obs.op = "sample" =>
    LET o == obs.out[1]
    IN  /\ o.sample.phase = o.phase_before
        /\ o.reset # <<>> => o.sample.phase = o.reset[1]
        /\ ks.osc_state.phase =
             Mod1(RAdd(o.phase_before,
                       RDiv(o.freq, <<ks.osc_state.sample_rate, 1>>)))

C13_Witness ==
  /\ obs.op = "sample"
  /\ obs.out[1].reset = <<(<<1, 4>>)>>
  /\ obs.out[1].sample.phase = <<1, 4>>
  /\ RGeq(RAdd(obs.out[1].phase_before,
               RDiv(obs.out[1].freq, <<ks.osc_state.sample_rate, 1>>)), One)
  /\ ks.osc_state.phase # obs.out[1].phase_before

\* ------------------------------------------------------------------------
\* Rendering before initialize()
\* ------------------------------------------------------------------------

\* amp_env * sin(TAU * phase) is 0.0: the factor amp_env is 0 and the sine is
\* a number
Silent(sample) == sample.amp_env = Zero /\ IsFinite(sample.phase)

\* no field of the envelope is NaN or infinite
EnvelopeFinite(e) ==
  /\ IsFinite(e.current)
  /\ IsFinite(e.last_value_at_transition)

\* C14: a sample rendered while the sample rate is still 0 is silence (0), and
\* rendering it leaves no NaN or infinity in the envelopes or in the
\* oscillator's phase; on the first such sample and on every later one.
C14_SilentBeforeInitialize ==
  (obs.op = "sample" /\ ks.sample_rate = 0) =>
    /\ Silent(obs.out[1].sample)
    /\ IsFinite(ks.osc_state.phase)
    /\ EnvelopeFinite(ks.pitch_env_state)
    /\ EnvelopeFinite(ks.amp_env_state)

\* ------------------------------------------------------------------------
\* Negative stage durations: env is given them as they are, twin is given 0
\* in their place, and both get the same calls
\* ------------------------------------------------------------------------

SignedRate == 2

InitSigned ==
  /\ env = AhdsrStateDefault(SignedRate)
  /\ ret = Zero
  /\ hist = HistInit
  /\ scn = ScnInit
  /\ twin = [env |-> AhdsrStateDefault(SignedRate), ret |-> Zero]
  /\ VoiceIdle

SignedTrigger(triggered) ==
  /\ hist.triggers < MaxTriggers
  /\ env' = Trigger(env, triggered)
  /\ ret' = ret
  /\ twin' = [twin EXCEPT !.env = Trigger(@, triggered)]
  /\ hist' = [Pre("trigger") EXCEPT
                !.gate = triggered, !.triggers = @ + 1, !.triggered = TRUE]
  /\ UNCHANGED <<scn, voiceVars>>

SignedApplyParams(p) ==
  /\ env' = ApplyParams(env, p)
  /\ ret' = ret
  /\ twin' = [twin EXCEPT !.env = ApplyParams(@, ZeroForNegative(p))]
  /\ hist' = Pre("apply_params")
  /\ UNCHANGED <<scn, voiceVars>>

SignedAdvance ==
  LET r == Advance(env)
      q == Advance(twin.env)
  IN  /\ env' = r.env
      /\ ret' = r.ret
      /\ twin' = [env |-> q.env, ret |-> q.ret]
      /\ hist' = Pre("advance")
      /\ UNCHANGED <<scn, voiceVars>>

NextSigned ==
  \/ \E triggered \in BOOLEAN : SignedTrigger(triggered)
  \/ \E p \in SignedAhdsrValues : SignedApplyParams(p)
  \/ SignedAdvance

SpecSigned == InitSigned /\ [][NextSigned]_vars

\* C15: a negative stage duration is treated as a duration of 0: the envelope
\* goes through the same stages and returns the same outputs as with 0 in its
\* place, and no call fails.
C15_NegativeDurationAsZero ==
  /\ env.current_stage = twin.env.current_stage
  /\ env.samples_since_stage_start = twin.env.samples_since_stage_start
  /\ env.current = twin.env.current
  /\ env.last_value_at_transition = twin.env.last_value_at_transition
  /\ ret = twin.ret
  /\ IsFinite(ret)

C15_Witness ==
  /\ hist.op = "advance"
  /\ hist.preStage = "Attack"
  /\ env.attack = <<-1, 1>>
  /\ env.hold = <<-1, 1>>
  /\ twin.env.attack = Zero
  /\ env.decay = One
  /\ env.current_stage = "Decay"
  /\ env.samples_since_stage_start = 1
  /\ ret = One

\* ------------------------------------------------------------------------
\* The pitch sweep
\* ------------------------------------------------------------------------

\* C16: the frequency of a sample is end_freq + (start_freq - end_freq) * e for
\* the pitch envelope's output e of that sample, unclamped: start_freq at
\* e = 1, end_freq at e = 0, and 520.5 Hz for 1000 Hz, 41 Hz and e = 0.5.
C16_PitchFrequency ==
  /\ PitchFrequency(<<1, 2>>, <<1000, 1>>, <<41, 1>>) = <<1041, 2>>
  /\ obs.op = "sample" =>
       LET o == obs.out[1]
       IN  /\ o.freq = RAdd(o.p.end_freq,
                            RMul(RSub(o.p.start_freq, o.p.end_freq), o.pitch_env))
           /\ o.pitch_env = One => o.freq = o.p.start_freq
           /\ o.pitch_env = Zero => o.freq = o.p.end_freq

C16_Witness ==
  /\ obs.op = "sample"
  /\ ks.pitch_env_state.current_stage = "Decay"
  /\ obs.out[1].pitch_env = <<1, 4>>
  /\ obs.out[1].freq = <<1123, 4>>

\* ------------------------------------------------------------------------
\* A change of the sample rate
\* ------------------------------------------------------------------------

\* C17: an initialize() that changes the sample rate after the first one sets
\* the rate of the oscillator and of both envelopes together, and resets each
\* envelope's elapsed-sample counter, so that no time measured at the old rate
\* is read at the new one.
C17_RateChangeResets ==
  (/\ obs.op = "initialize"
   /\ obs.pre[1].sample_rate # 0
   /\ obs.pre[1].sample_rate # ks.sample_rate) =>
    /\ ks.osc_state.sample_rate = ks.sample_rate
    /\ ks.pitch_env_state.sample_rate = ks.sample_rate
    /\ ks.amp_env_state.sample_rate = ks.sample_rate
    /\ ks.pitch_env_state.samples_since_stage_start = 0
    /\ ks.amp_env_state.samples_since_stage_start = 0

\* ------------------------------------------------------------------------
\* The division in advance()
\* ------------------------------------------------------------------------

\* C18: whenever advance() computes t = elapsed time / stage duration, the
\* divisor is strictly positive and t is in [0,1), also when the durations
\* change between calls (sample rate > 0).
C18_DivisionWellDefined ==
  /\ (hist.op = "advance" /\ hist.div # <<>>) =>
       /\ Positive(hist.div[1].stage_time)
       /\ InCycle(hist.div[1].t)
  /\ (hist.op = "advance" /\ env.current_stage \in TimedStages) => hist.div # <<>>

C18_Witness ==
  /\ hist.op = "advance"
  /\ hist.div # <<>>
  /\ hist.preStage = "Decay"
  /\ hist.preSamples = 1
  /\ env.sample_rate = 2
  /\ hist.div[1].stage_time = One
  /\ hist.div[1].t = <<1, 2>>
  /\ hist.preSteady # <<One>>

\* ------------------------------------------------------------------------
\* The gate
\* ------------------------------------------------------------------------

NoteHeld == ks.last_midi_note # <<>>

GateOpenStages == {"Attack", "Hold", "Decay", "Sustain"}

GateClosedStages == {"Release", "NotTriggered"}

\* C19: a note is held exactly when both envelopes are in Attack, Hold, Decay
\* or Sustain; when none is held both are in Release or Idle; and a note-off
\* that comes when no note is held leaves both envelopes as they are, so it
\* does not restart Release.
C19_GateConsistency ==
  /\ NoteHeld <=> (/\ ks.pitch_env_state.current_stage \in GateOpenStages
                   /\ ks.amp_env_state.current_stage \in GateOpenStages)
  /\ ~NoteHeld => (/\ ks.pitch_env_state.current_stage \in GateClosedStages
                   /\ ks.amp_env_state.current_stage \in GateClosedStages)
  /\ (/\ obs.op = "event"
      /\ obs.event[1].kind = "NoteOff"
      /\ obs.pre[1].last_midi_note = <<>>) =>
       /\ ks.pitch_env_state = obs.pre[1].pitch_env_state
       /\ ks.amp_env_state = obs.pre[1].amp_env_state

C19_Witness ==
  /\ obs.op = "event"
  /\ obs.event[1].kind = "NoteOff"
  /\ obs.pre[1].last_midi_note = <<>>
  /\ Len(obs.applied) = 3
  /\ obs.applied[1].kind = "NoteOn"
  /\ obs.applied[2].kind = "NoteOff"
  /\ obs.applied[2].note = obs.applied[1].note
  /\ obs.applied[3].note = obs.applied[1].note
  /\ ks.amp_env_state.current_stage = "Release"
  /\ ks.amp_env_state.samples_since_stage_start = 1

\* ------------------------------------------------------------------------
\* The envelope under constant parameters, advanced once per sample for ever
\* ------------------------------------------------------------------------

\* the parameters are set once and stay as they are
InitLive ==
  /\ \E rate \in EnvRates : \E p \in AhdsrValues :
       env = ApplyParams(AhdsrStateDefault(rate), p)
  /\ ret = Zero
  /\ hist = HistInit
  /\ scn = ScnInit
  /\ twin = TwinInit
  /\ VoiceIdle

LiveTrigger(triggered) ==
  /\ hist.triggers < MaxTriggers
  /\ env' = Trigger(env, triggered)
  /\ ret' = ret
  /\ hist' = [Pre("trigger") EXCEPT
                !.gate = triggered, !.triggers = @ + 1, !.triggered = TRUE]
  /\ UNCHANGED <<scn, twin, voiceVars>>

\* one sample of the render loop: apply_params with the same values, advance
LiveSample ==
  LET p == [attack |-> env.attack, hold |-> env.hold, decay |-> env.decay,
            sustain |-> env.sustain, release |-> env.release]
      r == Advance(ApplyParams(env, p))
  IN  /\ env' = r.env
      /\ ret' = r.ret
      /\ hist' = Pre("advance")
      /\ UNCHANGED <<scn, twin, voiceVars>>

NextLive ==
  \/ \E triggered \in BOOLEAN : LiveTrigger(triggered)
  \/ LiveSample

\* the steps of NextLive that are a LiveSample: the ones that record an
\* advance() in hist
SampleRecorded == hist' = Pre("advance")

\* the host keeps rendering, one sample after the other: a sample that would
\* change the record of the last call is rendered in the end
SpecLive == InitLive /\ [][NextLive]_vars /\ WF_hist(SampleRecorded)

\* where the envelope comes to rest after the last trigger, or with none
RestStage ==
  IF hist.triggered /\ hist.gate THEN "Sustain" ELSE "NotTriggered"

RestValue ==
  IF hist.triggered /\ hist.gate THEN env.sustain ELSE Zero

\* C20: with constant finite parameters and advance() called once per sample,
\* after a trigger(true) that no trigger follows the envelope reaches Sustain
\* and stays there, returning the sustain level; after a trigger(false) that
\* no trigger follows it reaches Idle and stays there, returning 0; and
\* advance() never leaves Idle or Sustain.
C20_SettlesAndStays ==
  /\ []((hist.op = "advance" /\ hist.preStage \in Untimed) =>
          env.current_stage = hist.preStage)
  /\ <>[](env.current_stage = RestStage /\ ret = RestValue)

C20_Witness ==
  /\ hist.op = "advance"
  /\ hist.triggers = 2
  /\ hist.gate
  /\ hist.preStage = "Sustain"
  /\ env.current_stage = "Sustain"
  /\ env.attack = One
  /\ env.decay = One
  /\ env.sustain = <<1, 4>>
  /\ ret = <<1, 4>>

====
